---------------------------- MODULE Spec2Model ----------------------------
(***************************************************************************)
(* A model of pyhulu's HuluClient (src/pyhulu/client.py): the config       *)
(* handshake that derives the session key, the hex wire frame, the         *)
(* AES-CBC / PKCS#7 decryption of responses and the playlist request.      *)
(*                                                                         *)
(* Byte strings are sequences over 0..255; text is a sequence of           *)
(* one-character strings.  The server is the environment: every response   *)
(* body is drawn from a finite set of texts.                               *)
(***************************************************************************)
EXTENDS Integers, Sequences, FiniteSets, TLC

(***************************************************************************)
(* Library functions the client calls                                      *)
(***************************************************************************)

\* Optional values: None is the absent value (an attribute never assigned, a
\* call that raised instead of returning), Some(v) a present one.
None == <<>>

Some(v) == <<v>>

Get(opt) == opt[1]

RECURSIVE BitXor(_, _)
\* int.__xor__ on non-negative integers.
BitXor(a, b) ==
    IF a = 0 THEN b
    ELSE IF b = 0 THEN a
    ELSE ((a + b) % 2) + 2 * BitXor(a \div 2, b \div 2)

Min(a, b) == IF a <= b THEN a ELSE b

\* The sequence f as a tuple.  TLC evaluates a function constructor lazily,
\* element by element at each use; concatenation evaluates it once.
Tuple(f) == f \o <<>>

\* The function f as a table of its values, likewise evaluated once.
Table(f) == f @@ <<>>

\* Repeat(x, n) is the sequence of n copies of x (b'\0' * 16).
Repeat(x, n) == Tuple([i \in 1..n |-> x])

\* s[from..] (1-based), the empty sequence when from is past the end.
Drop(s, n) == SubSeq(s, n + 1, Len(s))

\* The characters bytes.fromhex and binascii.hexlify know as hex digits.
HexDigits == <<"0", "1", "2", "3", "4", "5", "6", "7",
               "8", "9", "a", "b", "c", "d", "e", "f">>

UpperHexDigits == <<"0", "1", "2", "3", "4", "5", "6", "7",
                    "8", "9", "A", "B", "C", "D", "E", "F">>

\* ASCII whitespace, which bytes.fromhex skips between bytes.
WhiteSpace == {" ", "\n", "\t", "\r"}

\* The value of each hex digit, either case.
HexValue ==
    Table([c \in {HexDigits[i] : i \in 1..16} \cup {UpperHexDigits[i] : i \in 1..16} |->
             (CHOOSE i \in 1..16 : HexDigits[i] = c \/ UpperHexDigits[i] = c) - 1])

IsHexDigit(c) == c \in DOMAIN HexValue

HexVal(c) == HexValue[c]

\* bytes.fromhex(text): Some(bytes), or None for ValueError.  Python skips
\* ASCII whitespace before each byte and then requires two hex digits next
\* to each other: the text decodes exactly when its characters other than
\* whitespace are hex digits that pair up, each pair adjacent in the text.
FromHex(text) ==
    LET IsDigitAt(i) == text[i] \notin WhiteSpace
        at == SelectSeq([i \in 1..Len(text) |-> i], IsDigitAt)
        n == Len(at) \div 2
    IN  IF \/ Len(at) % 2 # 0
           \/ \E j \in 1..Len(at) : ~IsHexDigit(text[at[j]])
           \/ \E k \in 1..n : at[2 * k] # at[2 * k - 1] + 1
        THEN None
        ELSE Some(Tuple([k \in 1..n |->
                     16 * HexVal(text[at[2 * k - 1]]) + HexVal(text[at[2 * k]])]))

\* binascii.hexlify(data).decode('utf8'): two lowercase digits per byte.
Hexlify(data) ==
    Tuple([j \in 1..(2 * Len(data)) |->
             IF j % 2 = 1 THEN HexDigits[(data[(j + 1) \div 2] \div 16) + 1]
             ELSE HexDigits[(data[j \div 2] % 16) + 1]])

\* The printable ASCII characters, code 32 (space) first; <grave> stands for
\* the grave accent (code 96), which no text of the model holds.
Printable == <<" ", "!", "\"", "#", "$", "%", "&", "'", "(", ")", "*", "+", ",",
               "-", ".", "/", "0", "1", "2", "3", "4", "5", "6", "7", "8", "9",
               ":", ";", "<", "=", ">", "?", "@", "A", "B", "C", "D", "E", "F",
               "G", "H", "I", "J", "K", "L", "M", "N", "O", "P", "Q", "R", "S",
               "T", "U", "V", "W", "X", "Y", "Z", "[", "\\", "]", "^", "_", "<grave>",
               "a", "b", "c", "d", "e", "f", "g", "h", "i", "j", "k", "l", "m",
               "n", "o", "p", "q", "r", "s", "t", "u", "v", "w", "x", "y", "z",
               "{", "|", "}", "~">>

\* The code of each printable ASCII character.
CodeOf ==
    Table([c \in {Printable[i] : i \in 1..Len(Printable)} |->
             31 + (CHOOSE i \in 1..Len(Printable) : Printable[i] = c)])

\* ord(c) for a printable ASCII character.
Ord(c) == CodeOf[c]

\* str.encode('utf8') on ASCII text.
EncodeUtf8(text) == Tuple([i \in 1..Len(text) |-> Ord(text[i])])

\* bytes.decode('utf8') on the ASCII fragment of UTF-8: None stands for
\* UnicodeDecodeError, raised here on every byte outside printable ASCII
\* (the plaintexts of the model hold no valid multi-byte sequence).
DecodeUtf8(data) ==
    IF \E i \in 1..Len(data) : data[i] < 32 \/ data[i] > 126 THEN None
    ELSE Some(Tuple([i \in 1..Len(data) |-> Printable[data[i] - 31]]))

\* str.upper() on hex text.
Upper(text) ==
    Tuple([i \in 1..Len(text) |->
             IF IsHexDigit(text[i]) THEN UpperHexDigits[HexVal(text[i]) + 1]
             ELSE text[i]])

RECURSIVE ParseInt(_)
\* int(text) for a string of decimal digits.
ParseInt(text) ==
    IF text = <<>> THEN 0
    ELSE 10 * ParseInt(SubSeq(text, 1, Len(text) - 1)) + HexVal(text[Len(text)])

\* The base64 alphabet (RFC 4648), value 0 first.
B64Alphabet == <<"A", "B", "C", "D", "E", "F", "G", "H", "I", "J", "K", "L", "M",
                 "N", "O", "P", "Q", "R", "S", "T", "U", "V", "W", "X", "Y", "Z",
                 "a", "b", "c", "d", "e", "f", "g", "h", "i", "j", "k", "l", "m",
                 "n", "o", "p", "q", "r", "s", "t", "u", "v", "w", "x", "y", "z",
                 "0", "1", "2", "3", "4", "5", "6", "7", "8", "9", "+", "/">>

RECURSIVE B64Encode(_)
\* base64.b64encode(data).decode('utf8').
B64Encode(data) ==
    IF data = <<>> THEN <<>>
    ELSE LET n  == Min(3, Len(data))
             b1 == data[1]
             b2 == IF n >= 2 THEN data[2] ELSE 0
             b3 == IF n >= 3 THEN data[3] ELSE 0
             c1 == B64Alphabet[(b1 \div 4) + 1]
             c2 == B64Alphabet[((b1 % 4) * 16 + (b2 \div 16)) + 1]
             c3 == IF n >= 2 THEN B64Alphabet[((b2 % 16) * 4 + (b3 \div 64)) + 1]
                   ELSE "="
             c4 == IF n >= 3 THEN B64Alphabet[(b3 % 64) + 1] ELSE "="
         IN  <<c1, c2, c3, c4>> \o B64Encode(Drop(data, n))

\* hashlib.md5(b'').hexdigest(): the digest of the empty message.
Md5OfEmpty == <<"d", "4", "1", "d", "8", "c", "d", "9", "8", "f", "0", "0",
                "b", "2", "0", "4", "e", "9", "8", "0", "0", "9", "9", "8",
                "e", "c", "f", "8", "4", "2", "7", "e">>

\* hashlib.md5(data).hexdigest().  MD5 is not computed: the digest of a
\* non-empty message is the uninterpreted term <<"md5", data>>.
Md5HexDigest(data) == IF data = <<>> THEN Md5OfEmpty ELSE <<"md5", data>>

\* The AES block size, the block size handed to Padding.unpad and the length
\* of the zero IV.
BlockSize == 16

\* The AES-128 key length, the length of a device key.
KeyLen == 16

\* Padding.pad(data, BlockSize): PKCS#7.
Pad(data) ==
    LET n == BlockSize - (Len(data) % BlockSize)
    IN  data \o Repeat(n, n)

\* Padding.unpad(padded, BlockSize), style pkcs7: Some(the data without its
\* padding), or None for ValueError.
Unpad(padded) ==
    LET len == Len(padded)
        padding_len == padded[len]
    IN  IF len = 0 THEN None
        ELSE IF len % BlockSize # 0 THEN None
        ELSE IF padding_len < 1 \/ padding_len > Min(BlockSize, len) THEN None
        ELSE IF \E i \in (len - padding_len + 1)..len : padded[i] # padding_len
             THEN None
        ELSE Some(SubSeq(padded, 1, len - padding_len))

\* AES.new(key, ...) raises ValueError unless the key has an AES key length.
ValidAesKey(key) == Len(key) \in {16, 24, 32}

\* The block cipher.  AES itself is not computed: the stand-in is a keyed
\* permutation of blocks, byte-wise addition of the key modulo 256.
BlockEncrypt(key, block) ==
    Tuple([i \in 1..BlockSize |-> (block[i] + key[((i - 1) % Len(key)) + 1]) % 256])

XorBlocks(a, b) == Tuple([i \in 1..BlockSize |-> BitXor(a[i], b[i])])

\* AES.new(key, AES.MODE_CBC, iv=b'\0'*16).decrypt(ciphertext): Some(the
\* plaintext), or None for the ValueError raised when the length is no
\* multiple of the block size.  Each block is decrypted and xored with the
\* ciphertext block before it, the first with the zero IV.
CbcDecrypt(key, ciphertext) ==
    IF Len(ciphertext) % BlockSize # 0 THEN None
    ELSE Some(Tuple([i \in 1..Len(ciphertext) |->
                 BitXor((ciphertext[i] + 256 - key[(((i - 1) % BlockSize) % Len(key)) + 1]) % 256,
                        IF i <= BlockSize THEN 0 ELSE ciphertext[i - BlockSize])]))

RECURSIVE CbcEncryptFrom(_, _, _)
CbcEncryptFrom(key, data, prev) ==
    IF data = <<>> THEN <<>>
    ELSE LET block == BlockEncrypt(key, XorBlocks(SubSeq(data, 1, BlockSize), prev))
         IN  block \o CbcEncryptFrom(key, Drop(data, BlockSize), block)

\* What the server does to a plaintext: pad, encrypt in CBC mode under a
\* zero IV.
CbcEncrypt(key, plaintext) == CbcEncryptFrom(key, Pad(plaintext), Repeat(0, BlockSize))


(***************************************************************************)
(* JSON                                                                    *)
(***************************************************************************)

\* A JSON object whose members are strings, and a JSON array.
JsonObject(fields) == [type |-> "object", fields |-> fields]

JsonArray == [type |-> "array", fields |-> <<>>]

\* The member names in the order the server writes them.
MemberOrder == <<"key", "key_id", "stream_url">>

RECURSIVE DumpMembers(_, _, _)
DumpMembers(fields, i, first) ==
    IF i > Len(MemberOrder) THEN <<>>
    ELSE IF MemberOrder[i] \notin DOMAIN fields THEN DumpMembers(fields, i + 1, first)
    ELSE (IF first THEN <<>> ELSE <<",", " ">>)
         \o <<"\"">> \o
            (CASE MemberOrder[i] = "key" -> <<"k", "e", "y">>
               [] MemberOrder[i] = "key_id" -> <<"k", "e", "y", "_", "i", "d">>
               [] OTHER -> <<"s", "t", "r", "e", "a", "m", "_", "u", "r", "l">>)
         \o <<"\"", ":", " ", "\"">> \o fields[MemberOrder[i]] \o <<"\"">>
         \o DumpMembers(fields, i + 1, FALSE)

\* json.dumps(value): the text of a JSON value.
JsonDumps(value) ==
    IF value.type = "array" THEN <<"[", "]">>
    ELSE <<"{">> \o DumpMembers(value.fields, 1, TRUE) \o <<"}">>

\* Server key material: the `key` member of a config response is its hex.
Ones(n) == Repeat(1, n)

ServerKeys == {Ones(KeyLen), Tuple([i \in 1..KeyLen |-> (256 - 13 * i) % 256]),
               Ones(KeyLen - 1), Ones(KeyLen + 1)}

KeyIds == {<<"7">>, <<"4", "2">>}

\* The JSON documents a config response may hold: complete ones, ones that
\* lack a member, one whose key is not hex, and one that is no object.
ConfigDocuments ==
    {JsonObject(("key" :> Hexlify(m)) @@ ("key_id" :> <<"7">>)) : m \in ServerKeys}
    \cup {JsonObject(("key" :> Hexlify(Ones(KeyLen))) @@ ("key_id" :> id)) : id \in KeyIds}
    \cup {JsonObject("key" :> Hexlify(Ones(KeyLen))),
          JsonObject("key_id" :> <<"7">>),
          JsonObject("key" :> <<"z", "z">>),
          JsonObject(("key" :> <<"z", "z">>) @@ ("key_id" :> <<"7">>)),
          JsonArray}

\* The JSON documents a playlist response may hold.
PlaylistDocuments ==
    {JsonObject("stream_url" :> <<"u">>), JsonObject("stream_url" :> <<"v">>)}

JsonDocuments == ConfigDocuments \cup PlaylistDocuments

\* Text paired with the value it parses to.
JsonCodebook == {[text |-> JsonDumps(v), value |-> v] : v \in JsonDocuments}

\* json.loads(text): Some(value), or None for JSONDecodeError.  Parsing is
\* the inverse of JsonDumps on JsonDocuments; every other text is invalid.
JsonLoads(text) ==
    IF \E e \in JsonCodebook : e.text = text
    THEN Some((CHOOSE e \in JsonCodebook : e.text = text).value)
    ELSE None


(***************************************************************************)
(* The methods of HuluClient                                               *)
(***************************************************************************)

\* How a call ends: exc is the class of the exception raised ("" when the
\* call returns), msg its message, value the returned value, log the
\* logger.error records the call wrote.
Raise(exc, msg, log) == [exc |-> exc, msg |-> msg, value |-> None, log |-> log]

Return(v) == [exc |-> "", msg |-> "", value |-> Some(v), log |-> <<>>]

\* The exception classes that `except ValueError` catches.
ValueErrors == {"ValueError", "JSONDecodeError", "UnicodeDecodeError"}

\* One logger.error call: the message, and the value rendered into it.
LogLine(msg) == [msg |-> msg, arg |-> None]

LogValue(msg, arg) == [msg |-> msg, arg |-> Some(arg)]

\* dict.update: the entries of b replace those of a.
DictUpdate(a, b) == b @@ a

\* HuluClient.__get_ciphertext
get_ciphertext(text, request) ==
    LET ciphertext == FromHex(text)
    IN  IF ciphertext = None
        THEN Raise("ValueError", "Error decoding response hex",
                   <<LogLine("Error decoding response hex"),
                     LogLine("Request:"),
                     LogValue("json.dumps(request, indent=4)", request),
                     LogLine("Response:"),
                     LogValue("text", text)>>)
        ELSE Return(Get(ciphertext))

\* HuluClient.decrypt_response
decrypt_response(key, ciphertext) ==
    IF ~ValidAesKey(key)
    THEN Raise("ValueError", "Incorrect AES key length", <<>>)
    ELSE LET decrypted == CbcDecrypt(key, ciphertext)
             plaintext == IF decrypted = None THEN None ELSE Unpad(Get(decrypted))
         IN  IF plaintext = None
             THEN Raise("ValueError", "Error decrypting response",
                        <<LogLine("Error decrypting response"),
                          LogLine("Ciphertext:"),
                          LogValue("base64", B64Encode(ciphertext)),
                          LogValue("Tried decrypting with key %s", B64Encode(key))>>)
             ELSE LET text == DecodeUtf8(Get(plaintext))
                  IN  IF text = None
                      THEN Raise("UnicodeDecodeError", "invalid start byte", <<>>)
                      ELSE LET parsed == JsonLoads(Get(text))
                           IN  IF parsed = None
                               THEN Raise("JSONDecodeError", "Expecting value", <<>>)
                               ELSE Return(Get(parsed))

\* The loop of get_session_key with + written for ^.
derived_key_array_sum(device_key, key) ==
    Tuple([i \in 1..Min(Len(device_key), Len(key)) |-> (device_key[i] + key[i]) % 256])

\* The loop of get_session_key: zip stops at the shorter of its arguments.
derived_key_array(device_key, key) ==
    Tuple([i \in 1..Min(Len(device_key), Len(key)) |-> BitXor(device_key[i], key[i])])

\* The nonce of get_session_key.
nonce(dev) ==
    Md5HexDigest(EncodeUtf8(
        Hexlify(dev.device_key) \o <<",">> \o dev.device_code \o <<",">>
        \o <<"4", "0", "9", "1", "6", "0">> \o <<",">>
        \o <<"3", "0", "7", "3", "3", "0", "7", "2", "5">>))

\* The payload of the config request.
config_payload(dev) ==
    [device |-> dev.device_code,
     format |-> "json",
     region |-> "US",
     device_model |-> "AFTT",
     android_sdk_version |-> "22",
     encrypted_nonce |-> nonce(dev),
     android_version |-> "5.1.1",
     rv |-> "307330725",
     o3n |-> "68fcf672a4760ae2cf1a62abf919a2d82af08f17b5d12949ab3d92282850dc056b32984ab35a933da72d8ef0be615af8",
     device_id |-> "bbb67585088b5e65",
     version |-> "2",
     unencrypted |-> "true"]

\* HuluClient.get_session_key, text being the body of the config response.
get_session_key(dev, text) ==
    LET ciphertext == get_ciphertext(text, config_payload(dev))
    IN  IF ciphertext.exc # "" THEN ciphertext
        ELSE LET decrypted == decrypt_response(dev.device_key, Get(ciphertext.value))
             IN  IF decrypted.exc # "" THEN decrypted
                 ELSE LET config_dict == Get(decrypted.value)
                      IN  IF config_dict.type # "object"
                          THEN Raise("TypeError", "list indices must be integers", <<>>)
                          ELSE IF "key" \notin DOMAIN config_dict.fields
                          THEN Raise("KeyError", "key", <<>>)
                          ELSE LET key == FromHex(config_dict.fields["key"])
                               IN  IF key = None
                                   THEN Raise("ValueError", "non-hexadecimal number found in fromhex() arg", <<>>)
                                   ELSE IF "key_id" \notin DOMAIN config_dict.fields
                                   THEN Raise("KeyError", "key_id", <<>>)
                                   ELSE Return(<<derived_key_array(dev.device_key, Get(key)),
                                                 config_dict.fields["key_id"]>>)

\* The params of load_playlist merged the other way round: the defaults
\* replace the caller's extra parameters.
playlist_params_defaults_win(dev, kv, extra, video_id, rv) ==
    DictUpdate(
        extra,
        [device_identifier |-> Upper(Md5HexDigest(<<>>)),
         deejay_device_id |-> ParseInt(dev.device_code),
         version |-> 409160,
         content_eab_id |-> video_id,
         rv |-> rv,
         kv |-> kv])

\* The params of load_playlist, after the caller's extra parameters are
\* merged in.
playlist_params(dev, kv, extra, video_id, rv) ==
    DictUpdate(
        [device_identifier |-> Upper(Md5HexDigest(<<>>)),
         deejay_device_id |-> ParseInt(dev.device_code),
         version |-> 409160,
         content_eab_id |-> video_id,
         rv |-> rv,
         kv |-> kv],
        extra)

\* HuluClient.load_playlist from the response on, text being the body of
\* the playlist response.
load_playlist(key, params, text) ==
    LET ciphertext == get_ciphertext(text, params)
    IN  IF ciphertext.exc # "" THEN ciphertext
        ELSE decrypt_response(key, Get(ciphertext.value))


(***************************************************************************)
(* The environment: the caller's arguments and the server's responses      *)
(***************************************************************************)

\* How many method calls a client receives after its construction.
MaxCalls == 2

\* The `device_key` argument.
DeviceKey == Tuple([i \in 1..KeyLen |-> 256 - i])

Devices == {[device_code |-> <<"1", "6", "6">>, device_key |-> DeviceKey]}

\* The `extra_playlist_params` arguments: none, an unrelated parameter, and
\* one that names `kv`.
ExtraParams == {<<>>, "guid" :> <<"g">>, "kv" :> <<"9">>}

VideoIds == {"EAB::1", "EAB::2"}

\* Values of random.randrange(1E5, 1E6).
RandomValues == {100000, 999999}

\* A key that differs from key in its first byte only, and one that differs
\* from it in every byte.
NearKey(key) ==
    Tuple([i \in 1..Len(key) |-> IF i = 1 THEN (key[i] + 1) % 256 ELSE key[i]])

FarKey(key) == Tuple([i \in 1..Len(key) |-> (key[i] + 101) % 256])

\* Plaintexts that are no JSON: plain text, and bytes that are no UTF-8.
NotJson == {EncodeUtf8(<<"o", "k">>), <<255, 254>>}

\* The ways a response body frames its ciphertext: as lowercase hex, as hex
\* with whitespace between bytes and a trailing newline, as hex that lost
\* its last digit, as hex that lost its last byte, as an HTML error page,
\* and as an empty body.
WireText(framing, ciphertext) ==
    CASE framing = "hex" -> Hexlify(ciphertext)
      [] framing = "spaced" ->
            Hexlify(SubSeq(ciphertext, 1, 1)) \o <<" ">>
            \o Hexlify(Drop(ciphertext, 1)) \o <<"\n">>
      [] framing = "odd" ->
            SubSeq(Hexlify(ciphertext), 1, 2 * Len(ciphertext) - 1)
      [] framing = "cut" ->
            Hexlify(SubSeq(ciphertext, 1, Len(ciphertext) - 1))
      [] framing = "html" -> <<"<", "h", "t", "m", "l", ">">>
      [] OTHER -> <<>>

\* A response of the server: the JSON document it encrypted (None when the
\* plaintext is raw bytes that are no JSON), the key it encrypted under and
\* the framing of the body.
Response(plaintext, document, key, framing) ==
    [raw |-> IF document = None THEN plaintext ELSE <<>>,
     document |-> document, key |-> key, framing |-> framing]

JsonResponse(doc, key, framing) == Response(<<>>, Some(doc), key, framing)

\* The text of the body of a response.
BodyText(response) ==
    WireText(response.framing,
             CbcEncrypt(response.key,
                        IF response.document = None THEN response.raw
                        ELSE EncodeUtf8(JsonDumps(Get(response.document)))))

CompleteConfig == JsonObject(("key" :> Hexlify(Ones(KeyLen))) @@ ("key_id" :> <<"7">>))

\* The bodies the config endpoint may answer with: every document under the
\* device key, one document in every framing, one under wrong keys, and
\* plaintexts that are no JSON.
ConfigResponses ==
    {JsonResponse(d, DeviceKey, "hex") : d \in ConfigDocuments}
    \cup {JsonResponse(CompleteConfig, DeviceKey, f) :
            f \in {"spaced", "odd", "cut", "html", "empty"}}
    \cup {JsonResponse(CompleteConfig, k, "hex") :
            k \in {NearKey(DeviceKey), FarKey(DeviceKey)}}
    \cup {Response(p, None, DeviceKey, "hex") : p \in NotJson}

\* The session keys the server derives: device key xor its key material.
ServerSessionKeys ==
    {derived_key_array(DeviceKey, m) : m \in {k \in ServerKeys : Len(k) = KeyLen}}

\* The bodies the playlist endpoint may answer with when the server holds
\* session key k.
PlaylistResponsesFor ==
    Table([k \in ServerSessionKeys |->
             {JsonResponse(d, k, "hex") : d \in PlaylistDocuments}
             \cup {JsonResponse(JsonObject("stream_url" :> <<"u">>), k, f) :
                     f \in {"spaced", "odd", "cut"}}
             \cup {JsonResponse(JsonObject("stream_url" :> <<"u">>), kk, "hex") :
                     kk \in {NearKey(k), FarKey(k)}}
             \cup {Response(EncodeUtf8(<<"o", "k">>), None, k, "hex")}])

\* The session key the server holds for a client: the client's own when it
\* has the length of a key.
ServerSessionKey(key) ==
    IF key \in ServerSessionKeys THEN key
    ELSE derived_key_array(DeviceKey, Ones(KeyLen))

\* The responses whose ciphertext a caller hands to decrypt_response: a
\* playlist, a playlist under another key, and a plaintext that is no JSON.
CiphertextsFor(k) ==
    {r \in PlaylistResponsesFor[k] :
        /\ r.framing = "hex"
        /\ r.key # NearKey(k)
        /\ r.document \in {None, Some(JsonObject("stream_url" :> <<"u">>))}}

\* The body of every response.
Body ==
    Table([r \in ConfigResponses
                 \cup UNION {PlaylistResponsesFor[k] : k \in ServerSessionKeys}
             |-> BodyText(r)])

(***************************************************************************)
(* The client                                                              *)
(***************************************************************************)

VARIABLES
    device,                 \* self.device: device_code and device_key
    extra_playlist_params,  \* self.extra_playlist_params
    session_key,            \* self.session_key, None until assigned
    server_key,             \* self.server_key, None until assigned
    phase,                  \* "new": __init__ not yet run; "ready": __init__
                            \* returned the client; "failed": __init__ raised
    handshake,              \* the config response __init__ received and how
                            \* its get_session_key ended
    wire,                   \* the requests posted so far, oldest first
    last,                   \* the latest method call: its request, the key
                            \* it was given, the response it received and
                            \* how it ended
    calls                   \* the number of method calls after construction

vars == <<device, extra_playlist_params, session_key, server_key, phase,
          handshake, wire, last, calls>>

client == <<device, extra_playlist_params, session_key, server_key, phase, handshake>>

\* A posted request: the endpoint and the payload members the server acts on.
Posted(url, payload) ==
    [url |-> url,
     kv |-> IF "kv" \in DOMAIN payload THEN Some(payload["kv"]) ELSE None,
     device_identifier |->
        IF "device_identifier" \in DOMAIN payload
        THEN Some(payload["device_identifier"]) ELSE None]

Call(op, request, key, response, outcome) ==
    [op |-> op, request |-> request, key |-> key, response |-> response,
     outcome |-> outcome]

\* The session key the server holds for this client.
ServerHolds ==
    ServerSessionKey(IF session_key = None THEN <<>> ELSE Get(session_key))

\* The arguments of HuluClient(device_code, device_key, cookies, ...).
Init ==
    /\ device \in Devices
    /\ extra_playlist_params \in ExtraParams
    /\ session_key = None
    /\ server_key = None
    /\ phase = "new"
    /\ handshake = None
    /\ wire = <<>>
    /\ last = Call("", None, None, None, None)
    /\ calls = 0

\* __init__ without line 57: the client is returned with no handshake made.
ConstructWithoutHandshake ==
    /\ phase = "new"
    /\ phase' = "ready"
    /\ last' = Call("__init__", None, None, None, Some(Return(<<>>)))
    /\ UNCHANGED <<device, extra_playlist_params, session_key, server_key,
                   handshake, wire, calls>>

\* __init__ with the handshake's exception caught and the device key kept
\* as the session key.
ConstructStoresOnError ==
    /\ phase = "new"
    /\ \E response \in ConfigResponses :
         LET outcome == get_session_key(device, Body[response])
         IN  /\ wire' = Append(wire, Posted("config", config_payload(device)))
             /\ handshake' = Some([response |-> response, outcome |-> outcome])
             /\ last' = Call("__init__", Some(config_payload(device)), None,
                             Some(response), Some(outcome))
             /\ phase' = "ready"
             /\ IF outcome.exc = ""
                THEN /\ session_key' = Some(Get(outcome.value)[1])
                     /\ server_key' = Some(Get(outcome.value)[2])
                ELSE /\ session_key' = Some(device.device_key)
                     /\ server_key' = Some(<<>>)
    /\ UNCHANGED <<device, extra_playlist_params, calls>>

\* HuluClient.__init__: the handshake; the pair it returns is assigned to
\* session_key and server_key, an exception leaves the caller without a
\* client.
Construct ==
    /\ phase = "new"
    /\ \E response \in ConfigResponses :
         LET outcome == get_session_key(device, Body[response])
         IN  /\ wire' = Append(wire, Posted("config", config_payload(device)))
             /\ handshake' = Some([response |-> response, outcome |-> outcome])
             /\ last' = Call("__init__", Some(config_payload(device)), None,
                             Some(response), Some(outcome))
             /\ IF outcome.exc = ""
                THEN /\ session_key' = Some(Get(outcome.value)[1])
                     /\ server_key' = Some(Get(outcome.value)[2])
                     /\ phase' = "ready"
                ELSE /\ UNCHANGED <<session_key, server_key>>
                     /\ phase' = "failed"
    /\ UNCHANGED <<device, extra_playlist_params, calls>>

\* client.load_playlist(video_id): reading an attribute __init__ never
\* assigned raises AttributeError before anything is posted.
LoadPlaylist ==
    /\ phase = "ready"
    /\ calls < MaxCalls
    /\ \E video_id \in VideoIds, rv \in RandomValues,
          response \in PlaylistResponsesFor[ServerHolds] :
         IF server_key = None \/ session_key = None
         THEN /\ last' = Call("load_playlist", None, None, None,
                              Some(Raise("AttributeError", "server_key", <<>>)))
              /\ UNCHANGED wire
         ELSE LET params == playlist_params(device, Get(server_key),
                                            extra_playlist_params, video_id, rv)
              IN  /\ wire' = Append(wire, Posted("playlist", params))
                  /\ last' = Call("load_playlist", Some(params), session_key,
                                  Some(response),
                                  Some(load_playlist(Get(session_key), params,
                                                     Body[response])))
    /\ calls' = calls + 1
    /\ UNCHANGED client

\* get_session_key called on the client, its result assigned to the client
\* as __init__ assigns it.
GetSessionKeyStores ==
    /\ phase = "ready"
    /\ calls < MaxCalls
    /\ \E response \in ConfigResponses :
         LET outcome == get_session_key(device, Body[response])
         IN  /\ wire' = Append(wire, Posted("config", config_payload(device)))
             /\ last' = Call("get_session_key", Some(config_payload(device)),
                             None, Some(response), Some(outcome))
             /\ IF outcome.exc = ""
                THEN /\ session_key' = Some(Get(outcome.value)[1])
                     /\ server_key' = Some(Get(outcome.value)[2])
                ELSE UNCHANGED <<session_key, server_key>>
    /\ calls' = calls + 1
    /\ UNCHANGED <<device, extra_playlist_params, phase, handshake>>

\* client.get_session_key(): the handshake again; the pair goes to the
\* caller.
GetSessionKey ==
    /\ phase = "ready"
    /\ calls < MaxCalls
    /\ \E response \in ConfigResponses :
         /\ wire' = Append(wire, Posted("config", config_payload(device)))
         /\ last' = Call("get_session_key", Some(config_payload(device)),
                         None, Some(response),
                         Some(get_session_key(device, Body[response])))
    /\ calls' = calls + 1
    /\ UNCHANGED client

\* client.decrypt_response(key, ciphertext) on the ciphertext of a playlist
\* response, under the session key or the device key.
DecryptResponse ==
    /\ phase = "ready"
    /\ calls < MaxCalls
    /\ \E key \in {device.device_key}
                  \cup (IF session_key = None THEN {} ELSE {Get(session_key)}),
          response \in CiphertextsFor(ServerHolds) :
         last' = Call("decrypt_response", None, Some(key), Some(response),
                      Some(decrypt_response(key, Get(FromHex(Body[response])))))
    /\ calls' = calls + 1
    /\ UNCHANGED <<client, wire>>

Next == Construct \/ LoadPlaylist \/ GetSessionKey \/ DecryptResponse

Spec == Init /\ [][Next]_vars


(***************************************************************************)
(* The key derivation on its own: every value of a byte meets every other  *)
(***************************************************************************)

ByteValues == 0..255

\* Device keys and key materials of KeyLen bytes; between them the first
\* bytes take every pair of values.
KeyFrom(a) == Tuple([i \in 1..KeyLen |-> (a + 31 * (i - 1)) % 256])

MaterialFrom(b) == Tuple([i \in 1..KeyLen |-> (b + 57 * (i - 1)) % 256])

DeriveKeys == {KeyFrom(a) : a \in ByteValues} \cup {Repeat(0, KeyLen)}

DeriveMaterials == {MaterialFrom(b) : b \in ByteValues} \cup {Ones(KeyLen)}

InitDerive ==
    /\ device \in {[device_code |-> <<"1", "6", "6">>, device_key |-> k] :
                     k \in DeriveKeys}
    /\ extra_playlist_params = <<>>
    /\ session_key = None
    /\ server_key = None
    /\ phase = "derive"
    /\ handshake = None
    /\ wire = <<>>
    /\ last = Call("", None, None, None, None)
    /\ calls = 0

\* Lines 163 to 168 of get_session_key on a decoded key material.
Derive ==
    /\ phase = "derive"
    /\ calls = 0
    /\ \E material \in DeriveMaterials :
         last' = Call("derive", None, Some(material), None,
                      Some(Return(derived_key_array(device.device_key, material))))
    /\ calls' = calls + 1
    /\ UNCHANGED <<client, wire>>

SpecDerive == InitDerive /\ [][Derive]_vars

(***************************************************************************)
(* Properties                                                              *)
(***************************************************************************)

\* The positions of the playlist requests among the posted requests.
PlaylistPosts == {i \in 1..Len(wire) : wire[i].url = "playlist"}

HandshakeSucceeded == handshake # None /\ Get(handshake).outcome.exc = ""

\* The key_id member of the config document the handshake received.
HandshakeKeyId == Get(Get(handshake).response.document).fields["key_id"]

\* The calls that perform the handshake.
HandshakeCalls == {"__init__", "get_session_key"}

\* The members of the config document of a response that arrives intact
\* and encrypted under the device key; <<>> when there is no such document.
ConfigFields(response) ==
    IF /\ response.key = device.device_key
       /\ response.framing = "hex"
       /\ response.document # None
       /\ Get(response.document).type = "object"
    THEN Get(response.document).fields
    ELSE <<>>

\* Exclusive or of two bytes, bit by bit.
XorOf(a, b) ==
    LET bit(x, j) == (x \div 2^j) % 2
        sum[j \in 0..8] ==
            IF j = 8 THEN 0
            ELSE ((bit(a, j) + bit(b, j)) % 2) * 2^j + sum[j + 1]
    IN  sum[0]

\* Text that is no even-length string of hex digits.
Malformed(text) ==
    Len(text) % 2 = 1 \/ \E i \in 1..Len(text) : ~IsHexDigit(text[i])

\* C1: a playlist request is posted only after a config request that ended
\* in a successful handshake, and whenever load_playlist runs, session_key
\* and server_key hold the pair that handshake returned.
C1_HandshakeBeforePlaylist ==
    /\ \A i \in PlaylistPosts :
         /\ i > 1
         /\ wire[1].url = "config"
         /\ HandshakeSucceeded
    /\ last.op = "load_playlist" =>
         /\ HandshakeSucceeded
         /\ session_key # None
         /\ server_key # None
         /\ session_key = Some(Get(Get(handshake).outcome.value)[1])
         /\ server_key = Some(Get(Get(handshake).outcome.value)[2])

\* A playlist was requested and loaded.
C1_PlaylistLoaded ==
    /\ last.op = "load_playlist"
    /\ PlaylistPosts # {}
    /\ Get(last.outcome).exc = ""

\* C2: a handshake whose key material has another length than the device
\* key ends in an error and stores no session key.
C2_LengthMismatchIsFatal ==
    (last.op \in HandshakeCalls /\ last.response # None) =>
        LET fields == ConfigFields(Get(last.response))
            material == IF "key" \in DOMAIN fields
                        THEN FromHex(fields["key"]) ELSE None
        IN  (material # None /\ Len(Get(material)) # Len(device.device_key)) =>
                /\ Get(last.outcome).exc # ""
                /\ last.op = "__init__" => session_key = None

C4_DerivedKeyIsXor ==
    last.op = "derive" =>
        LET K == device.device_key
            M == Get(last.key)
            S == Get(Get(last.outcome).value)
        IN  (Len(K) = KeyLen /\ Len(M) = KeyLen) =>
                /\ Len(S) = KeyLen
                /\ \A i \in 1..KeyLen :
                     S[i] \in ByteValues /\ S[i] = XorOf(K[i], M[i])
                /\ derived_key_array(S, M) = K
                /\ derived_key_array(S, K) = M
                /\ (K = Repeat(0, KeyLen) /\ M = Ones(KeyLen)) => S = Ones(KeyLen)

\* The key of zeros met the material of ones.
C4_ZerosAndOnes ==
    /\ last.op = "derive"
    /\ device.device_key = Repeat(0, KeyLen)
    /\ last.key = Some(Ones(KeyLen))
    /\ Get(last.outcome).value = Some(Ones(KeyLen))

\* C5: a handshake that ends in an error ends the constructor with that
\* error, leaves no session_key and no server_key and is followed by no
\* request; a stored session key is the one derived from a config response
\* that hex-decoded and decrypted under the device key.
C5_KeyOnlyFromDecryptedConfig ==
    /\ (handshake # None /\ Get(handshake).outcome.exc # "") =>
         /\ phase = "failed"
         /\ session_key = None
         /\ server_key = None
         /\ Len(wire) = 1
         /\ last.op = "__init__"
         /\ last.outcome = Some(Get(handshake).outcome)
    /\ session_key # None =>
         /\ HandshakeSucceeded
         /\ LET response == Get(handshake).response
            IN  /\ FromHex(Body[response]) # None
                /\ response.key = device.device_key
                /\ response.document # None
                /\ session_key =
                     Some(derived_key_array(
                            device.device_key,
                            Get(FromHex(Get(response.document).fields["key"]))))

\* The constructor failed on a config response it could not decrypt.
C5_DecryptFailed ==
    /\ phase = "failed"
    /\ Get(handshake).outcome.msg = "Error decrypting response"
    /\ session_key = None

\* C6: a handshake whose config document lacks key or key_id ends in an
\* error of a kind that is none of the framing and decryption errors, and
\* stores no session key.
C6_MissingFieldIsProtocolError ==
    (last.op \in HandshakeCalls /\ last.response # None) =>
        LET response == Get(last.response)
            fields == ConfigFields(response)
        IN  (/\ response.document # None
             /\ Get(response.document).type = "object"
             /\ response.key = device.device_key
             /\ response.framing = "hex"
             /\ {"key", "key_id"} \ DOMAIN fields # {}) =>
                /\ Get(last.outcome).exc \notin ValueErrors \cup {""}
                /\ last.op = "__init__" => session_key = None

\* C7: a response body of odd length, or with a character that is no hex
\* digit, ends the call in the error of hex decoding, for config and
\* playlist responses alike.
C7_StrictHex ==
    (/\ last.op \in HandshakeCalls \cup {"load_playlist"}
     /\ last.response # None
     /\ Malformed(Body[Get(last.response)])) =>
        /\ Get(last.outcome).exc = "ValueError"
        /\ Get(last.outcome).msg = "Error decoding response hex"

\* C8: decrypt_response under a key of valid length ends every failure,
\* of the padding or of the JSON, in the one error "Error decrypting
\* response", with the ciphertext and the key logged in base64.
C8_OneDecryptionError ==
    (/\ last.op \in {"load_playlist", "decrypt_response"}
     /\ last.response # None
     /\ FromHex(Body[Get(last.response)]) # None
     /\ ValidAesKey(Get(last.key))
     /\ Get(last.outcome).exc # "") =>
        LET outcome == Get(last.outcome)
            ciphertext == Get(FromHex(Body[Get(last.response)]))
        IN  /\ outcome.exc = "ValueError"
            /\ outcome.msg = "Error decrypting response"
            /\ \E i \in 1..Len(outcome.log) :
                 outcome.log[i].arg = Some(B64Encode(ciphertext))
            /\ \E i \in 1..Len(outcome.log) :
                 outcome.log[i].arg = Some(B64Encode(Get(last.key)))

\* C9: no two playlist requests carry the same device_identifier.
C9_FreshDeviceIdentifier ==
    \A i, j \in PlaylistPosts :
        i # j => wire[i].device_identifier # wire[j].device_identifier

\* C10: no call on a constructed client changes its session_key, its
\* server_key, its device or its extra_playlist_params.
C10_ClientIsImmutable ==
    [][phase = "ready" =>
         /\ session_key' = session_key
         /\ server_key' = server_key
         /\ device' = device
         /\ extra_playlist_params' = extra_playlist_params]_vars

\* get_session_key, called on a constructed client, returned another
\* session key and key_id than the client holds.
C10_OtherKeyReturned ==
    /\ phase = "ready"
    /\ last.op = "get_session_key"
    /\ Get(last.outcome).exc = ""
    /\ Get(Get(last.outcome).value)[1] # Get(session_key)
    /\ Get(Get(last.outcome).value)[2] # Get(server_key)

=============================================================================
